---- MODULE Spec2Model ----
(***************************************************************************)
(* Model of compare/core/algorithm.py: TextComparer (a character n-gram    *)
(* TF-IDF vector space fitted over a corpus) and the blended score         *)
(* 0.7 * component + 0.3 * edit_similarity used to rank the corpus against *)
(* an input text.                                                          *)
(*                                                                         *)
(* Texts are sequences of one-character strings.  Floating point values    *)
(* are fixed point integers: a similarity s is the integer s * Unit, a     *)
(* combined score c is the integer c * 10 * Unit, and the float NaN is the *)
(* value NaN, which every arithmetic operator propagates and every ordered *)
(* comparison answers with FALSE, as IEEE 754 does.                        *)
(***************************************************************************)
EXTENDS Integers, Sequences, FiniteSets, TLC

\* Largest corpus handed to the constructor.
MaxCorpus == 3

\* TfidfVectorizer(analyzer='char', ngram_range=(3, 5))
NgramMin == 3
NgramMax == 5

\* combined_score = 0.7 * embedding_sim + 0.3 * lev_similarity, in tenths
WeightEmbedding == 7
WeightLev == 3

\* 1.0 as a fixed point similarity; divisible by every text length used
Unit == 12 * 1000
\* 1.0 as a fixed point combined score
One == 10 * Unit
NaN == 0 - One * 4

\* ..model.SIMILARITY_THRESHOLD, a combined score; the constant is set in
\* compare/model, 0.5 is taken for it
SIMILARITY_THRESHOLD == 5 * Unit

Empty == << >>
AB == <<"a", "b">>
AAA == <<"a", "a", "a">>
AAAA == <<"a", "a", "a", "a">>
AAAB == <<"a", "a", "a", "b">>

\* The texts corpora and inputs are drawn from: the empty string, a string
\* shorter than the shortest n-gram, and strings that share n-grams.
TextUniverse == {Empty, AB, AAA, AAAA, AAAB}

\* The input texts of compare_texts: the empty string, a non-empty text
\* without any n-gram, and texts with one.
InputUniverse == {Empty, AB, AAA, AAAB}

\* The corpora handed to the constructor, the empty corpus included.
Corpora == UNION {[1..n -> TextUniverse] : n \in 0..MaxCorpus}

\* Short corpora, for runs that keep the outcome of an earlier call.
SmallCorpora == UNION {[1..n -> TextUniverse] : n \in 0..(MaxCorpus - 1)}

\* Corpora one text longer, of non-empty texts.
WideCorpora == [1..(MaxCorpus + 1) -> TextUniverse \ {Empty}]

----------------------------------------------------------------------------
(* Arithmetic helpers *)

Min2(a, b) == IF a < b THEN a ELSE b
Max2(a, b) == IF a > b THEN a ELSE b

RECURSIVE SqrtSearch(_, _, _)
\* largest r in lo..hi with r * r <= x  (lo * lo <= x < (hi + 1) * (hi + 1))
SqrtSearch(lo, hi, x) ==
    IF lo = hi THEN lo
    ELSE LET mid == (lo + hi + 1) \div 2
         IN IF mid * mid <= x THEN SqrtSearch(mid, hi, x)
                              ELSE SqrtSearch(lo, mid - 1, x)

\* floor of the square root of a * b (math.sqrt / numpy.sqrt), which lies
\* between the smaller factor and the mean of the two
SqrtOfProduct(a, b) == SqrtSearch(Min2(a, b), (a + b) \div 2, a * b)

ReverseSeq(s) == [i \in 1..Len(s) |-> s[Len(s) + 1 - i]]

----------------------------------------------------------------------------
(* Levenshtein.distance *)

RECURSIVE LevRow(_, _, _, _)
\* the next row of the dynamic programme: acc holds the columns 0..Len(acc)-1
\* of the row of character c, prev is the complete row above
LevRow(prev, c, t, acc) ==
    IF Len(acc) = Len(t) + 1 THEN acc
    ELSE LET j == Len(acc)
             cost == IF t[j] = c THEN 0 ELSE 1
             cell == Min2(Min2(prev[j + 1] + 1, acc[j] + 1), prev[j] + cost)
         IN LevRow(prev, c, t, Append(acc, cell))

RECURSIVE LevRows(_, _, _, _)
LevRows(s, t, i, prev) ==
    IF i > Len(s) THEN prev[Len(t) + 1]
    ELSE LevRows(s, t, i + 1, LevRow(prev, s[i], t, <<i>>))

LevDynamic(s, t) == LevRows(s, t, 1, [j \in 1..(Len(t) + 1) |-> j - 1])

\* the distances of the universe, computed once
LevTable == [s \in TextUniverse |-> [t \in TextUniverse |-> LevDynamic(s, t)]]

levenshtein_distance(s, t) == LevTable[s][t]

---------------------------------------------------------------------------------------------------------------------------------------------------
(* TfidfVectorizer(analyzer='char', ngram_range=(3, 5)) *)

\* the character n-grams of a text, as (start, length) windows
NgramWindows(text) ==
    {w \in (1..Len(text)) \X (NgramMin..NgramMax) : w[1] + w[2] - 1 <= Len(text)}

Ngram(text, w) == SubSeq(text, w[1], w[1] + w[2] - 1)

\* the n-grams of every text of the universe, computed once
NgramTable ==
    [text \in TextUniverse |-> {Ngram(text, w) : w \in NgramWindows(text)}]

Ngrams(text) == NgramTable[text]

RECURSIVE SetToSeq(_)
SetToSeq(S) ==
    IF S = {} THEN << >>
    ELSE LET e == CHOOSE e \in S : TRUE
         IN <<e>> \o SetToSeq(S \ {e})

\* every feature a fit can learn, in the order of the feature indices (the
\* order is immaterial to a dot product)
Features == SetToSeq(UNION {Ngrams(text) : text \in TextUniverse})

\* term frequency: the raw count of the n-gram in the text, computed once
TermCountTable ==
    [text \in TextUniverse |->
        [k \in 1..Len(Features) |->
            Cardinality({w \in NgramWindows(text) : Ngram(text, w) = Features[k]})]]

\* idf = ln((1 + n) / (1 + df)) + 1 (smooth_idf), in tenths, for n documents
\* of which df hold the term: IdfTable[n][df]
IdfTable ==
    << <<10>>,
       <<14, 10>>,
       <<17, 13, 10>>,
       <<19, 15, 12, 10>>,
       <<21, 17, 14, 12, 10>>,
       <<23, 18, 16, 13, 12, 10>> >>

DocFreq(corpus, g) == Cardinality({i \in 1..Len(corpus) : g \in Ngrams(corpus[i])})

\* the vocabulary a fit learns: every n-gram of every document
FitVocabulary(corpus) == UNION {Ngrams(corpus[i]) : i \in 1..Len(corpus)}

\* the fitted vectorizer: per feature index, 0 when the n-gram is outside the
\* vocabulary, its idf otherwise
FitIdf(corpus) ==
    LET vocabulary == FitVocabulary(corpus)
    IN [k \in 1..Len(Features) |->
           IF Features[k] \in vocabulary
           THEN IdfTable[Len(corpus)][DocFreq(corpus, Features[k])]
           ELSE 0]

\* vectorizer.transform([text]).toarray()[0]: tf * idf over the fitted
\* vocabulary; n-grams outside the vocabulary are dropped.  The l2
\* normalisation is a positive scaling that cosine() cancels, and it leaves
\* an all-zero row all-zero.
Transform(idfs, text) ==
    [k \in 1..Len(idfs) |-> TermCountTable[text][k] * idfs[k]]

RECURSIVE DotFrom(_, _, _)
DotFrom(u, v, k) == IF k > Len(u) THEN 0 ELSE u[k] * v[k] + DotFrom(u, v, k + 1)

\* numpy.dot
Dot(u, v) == DotFrom(u, v, 1)

-----
(* State *)

VARIABLES
    cosine_zero_norm, \* what scipy's cosine() gives at a zero norm: 0/0 is NaN,
                      \* which the installed scipy returns ("nan") or clamps
                      \* with max(0, min(NaN, 2.0)) to the distance 0 ("clamped")
    pc,               \* "new", "ready" (constructed) or "failed" (__init__ raised)
    error,            \* the exception __init__ raised, or "none"
    texts,            \* self.texts
    vectorizer,       \* self.vectorizer: the fitted idf of every vocabulary n-gram
    embeddings,       \* self.embeddings: one vector per text
    call,             \* the arguments of the last compare_texts call
    ret,              \* its outcome
    saved             \* an earlier call together with its outcome, and whether
                      \* compare_texts was called with other arguments since

vars == <<cosine_zero_norm, pc, error, texts, vectorizer, embeddings, call, ret, saved>>

NoCall == [input_text |-> Empty, advanced |-> FALSE, made |-> FALSE]

NoRet ==
    [kind |-> "none", error |-> "none", closest |-> Empty, score |-> 0,
     similar |-> << >>, similar_rows |-> << >>, similarities |-> << >>,
     trace |-> << >>]

NoSaved == [call |-> NoCall, ret |-> NoRet, interleaved |-> FALSE]

----------------------------------------------------------------------------
(* Float arithmetic with NaN *)

IsNaN(x) == x = NaN

\* x >= y on floats
FloatGe(x, y) == ~IsNaN(x) /\ ~IsNaN(y) /\ x >= y

\* x < y on floats
FloatLt(x, y) == ~IsNaN(x) /\ ~IsNaN(y) /\ x < y

----------------------------------------------------------------------------
(* scipy.spatial.distance.cosine *)

\* 1 - u.v / sqrt(u.u * v.v); at a zero norm the quotient is 0/0 = NaN
cosine(u, v) ==
    LET uu == Dot(u, u)
        vv == Dot(v, v)
    IN IF uu = 0 \/ vv = 0
       THEN IF cosine_zero_norm = "nan" THEN NaN ELSE 0
       ELSE Unit - (Dot(u, v) * Unit) \div SqrtOfProduct(uu, vv)

----------------------------------------------------------------------------
(* spaCy pipeline, embed_text and advanced_similarity *)

\* nlp: the tokens of a text.  No text of the universe holds whitespace or
\* punctuation, so a non-empty text is one token and the empty text has none.
Tokens(text) == IF Len(text) = 0 THEN << >> ELSE <<text>>

\* token.has_vector / token.vector of the loaded pipeline: AAA and AAAA have
\* an embedding, the other tokens have none
TokenHasVector(token) == token \in {AAA, AAAA}

TokenVector(token) == IF token = AAA THEN <<1, 0>> ELSE <<3, 4>>

embed_text(text) ==
    LET doc == Tokens(text)
    IN SelectSeq([i \in 1..Len(doc) |->
                     IF TokenHasVector(doc[i]) THEN TokenVector(doc[i]) ELSE << >>],
                 LAMBDA row : row # << >>)

\* vec.size of the stacked array
ArraySize(vec) == IF Len(vec) = 0 THEN 0 ELSE Len(vec) * Len(vec[1])

\* np.linalg.svd(vec, full_matrices=False)[2][0] for the one-row matrices
\* the universe produces: the row scaled to unit length.  The caller divides
\* by the norms again, so the row itself stands for the direction.
FirstRightSingular(vec) == vec[1]

\* the emptiness test with "and" for "or": the decomposition of an empty
\* matrix is attempted when only one text has no embeddable token
advanced_similarity_and(text1, text2) ==
    LET vec1 == embed_text(text1)
        vec2 == embed_text(text2)
    IN IF ArraySize(vec1) = 0 /\ ArraySize(vec2) = 0
       THEN [value |-> 0, svd |-> FALSE]
       ELSE IF ArraySize(vec1) = 0 \/ ArraySize(vec2) = 0
       THEN [value |-> NaN, svd |-> TRUE]
       ELSE LET v1 == FirstRightSingular(vec1)
                v2 == FirstRightSingular(vec2)
            IN [value |-> (Dot(v1, v2) * Unit)
                            \div SqrtOfProduct(Dot(v1, v1), Dot(v2, v2)),
                svd |-> TRUE]

advanced_similarity(text1, text2) ==
    LET vec1 == embed_text(text1)
        vec2 == embed_text(text2)
    IN IF ArraySize(vec1) = 0 \/ ArraySize(vec2) = 0
       THEN [value |-> 0, svd |-> FALSE]
       ELSE LET v1 == FirstRightSingular(vec1)
                v2 == FirstRightSingular(vec2)
            IN [value |-> (Dot(v1, v2) * Unit)
                            \div SqrtOfProduct(Dot(v1, v1), Dot(v2, v2)),
                svd |-> TRUE]

----------------------------------------------------------------------------
(* TextComparer._combined_similarity *)

\* One evaluation: the values of the locals, and whether the division by
\* max(len(input_text), len(text)) raised ZeroDivisionError.
_combined_similarity(input_text, text, input_embedding, text_embedding, advanced) ==
    LET dist == cosine(input_embedding, text_embedding)
        tfidf_cosine_sim == IF IsNaN(dist) THEN NaN ELSE Unit - dist
        adv == IF advanced THEN advanced_similarity(input_text, text)
                           ELSE [value |-> 0, svd |-> FALSE]
        embedding_sim == IF advanced THEN adv.value ELSE tfidf_cosine_sim
        lev_distance == levenshtein_distance(input_text, text)
        longest == Max2(Len(input_text), Len(text))
        raised == longest = 0
        lev_similarity == IF raised THEN 0 ELSE Unit - (lev_distance * Unit) \div longest
        combined_score ==
            IF raised THEN 0
            ELSE IF IsNaN(embedding_sim) THEN NaN
            ELSE WeightEmbedding * embedding_sim + WeightLev * lev_similarity
    IN [raised |-> raised, tfidf_cosine_sim |-> tfidf_cosine_sim,
        embedding_sim |-> embedding_sim, svd |-> adv.svd,
        lev_similarity |-> lev_similarity, combined_score |-> combined_score]

----------------------------------------------------------------------------
(* list.sort(key=..., reverse=True) of CPython, for lists shorter than the  *)
(* minimum run: reverse the list, find the leading run, extend it by binary *)
(* insertion, reverse again                                                 *)

KeyLt(x, y) == FloatLt(x.score, y.score)

RECURSIVE RunEnd(_, _, _)
\* count_run: the last index of the run that starts at 1
RunEnd(s, k, descending) ==
    IF k >= Len(s) THEN k
    ELSE IF descending
         THEN IF KeyLt(s[k + 1], s[k]) THEN RunEnd(s, k + 1, descending) ELSE k
         ELSE IF KeyLt(s[k + 1], s[k]) THEN k ELSE RunEnd(s, k + 1, descending)

RECURSIVE BinarySearch(_, _, _, _)
\* the insertion point of pivot among s[l..r-1]: after every equal element
BinarySearch(s, pivot, l, r) ==
    IF l >= r THEN l
    ELSE LET p == l + (r - l) \div 2
         IN IF KeyLt(pivot, s[p]) THEN BinarySearch(s, pivot, l, p)
                                  ELSE BinarySearch(s, pivot, p + 1, r)

InsertAt(s, at, from) ==
    [i \in 1..Len(s) |->
        IF i < at \/ i > from THEN s[i]
        ELSE IF i = at THEN s[from] ELSE s[i - 1]]

RECURSIVE BinarySort(_, _)
\* binarysort: s[1..start-1] is sorted, insert s[start..]
BinarySort(s, start) ==
    IF start > Len(s) THEN s
    ELSE BinarySort(InsertAt(s, BinarySearch(s, s[start], 1, start), start), start + 1)

SortAscending(s) ==
    IF Len(s) < 2 THEN s
    ELSE LET descending == KeyLt(s[2], s[1])
             n == RunEnd(s, 2, descending)
             run == IF descending
                    THEN [i \in 1..Len(s) |-> IF i <= n THEN s[n + 1 - i] ELSE s[i]]
                    ELSE s
         IN BinarySort(run, n + 1)

SortReverse(s) == ReverseSeq(SortAscending(ReverseSeq(s)))

----------------------------------------------------------------------------
(* TextComparer *)

\* a fit that accepts an empty vocabulary
_calculate_embeddings_no_raise(corpus) ==
    LET idfs == FitIdf(corpus)
    IN [raised |-> FALSE, vectorizer |-> idfs,
        embeddings |-> [i \in 1..Len(corpus) |-> Transform(idfs, corpus[i])]]

\* _calculate_embeddings: vectorizer.fit_transform(self.texts).toarray().
\* The fit raises ValueError("empty vocabulary") when no document has an
\* n-gram, which is the case of the empty corpus.
_calculate_embeddings(corpus) ==
    IF FitVocabulary(corpus) = {}
    THEN [raised |-> TRUE, vectorizer |-> [k \in 1..Len(Features) |-> 0], embeddings |-> << >>]
    ELSE LET idfs == FitIdf(corpus)
         IN [raised |-> FALSE, vectorizer |-> idfs,
             embeddings |-> [i \in 1..Len(corpus) |-> Transform(idfs, corpus[i])]]

RECURSIVE FirstRaised(_, _)
\* the first candidate whose evaluation raised, Len(evals) + 1 if none did
FirstRaised(evals, i) ==
    IF i > Len(evals) THEN i
    ELSE IF evals[i].raised THEN i ELSE FirstRaised(evals, i + 1)

\* the slice [1:] forgotten: rank 0 is a candidate of similar as well
Candidates_with_closest(similarities) == similarities

\* similarities[1:], the ranks the similar list is drawn from
Candidates(similarities) == Tail(similarities)

\* the corpus itself sorted in place by score
KeptTexts_sorted_in_place(similarities) ==
    [i \in 1..Len(similarities) |-> similarities[i].text]

\* self.texts after similarities.sort(...): similarities is a new list, so
\* the sort leaves the corpus in place
KeptTexts(similarities) == texts

\* compare_texts: the outcome of the call and the fields of self after it.
\* The outcome keeps, next to the fields of ResultScore, the sorted list
\* similarities with the corpus position of every row, the rows similar was
\* built from, and the locals of every _combined_similarity evaluation.
compare_texts(input_text, advanced) ==
    LET input_embedding == Transform(vectorizer, input_text)
        evals == [i \in 1..Len(texts) |->
                     _combined_similarity(input_text, texts[i], input_embedding,
                                          embeddings[i], advanced)]
        stop == FirstRaised(evals, 1)
        unsorted == [i \in 1..Len(texts) |->
                        [pos |-> i, text |-> texts[i], score |-> evals[i].combined_score]]
        similarities == SortReverse(unsorted)
        similar_rows == SelectSeq(Candidates(similarities),
                                  LAMBDA x : FloatGe(x.score, SIMILARITY_THRESHOLD))
        outcome ==
            IF stop <= Len(evals)
            THEN [NoRet EXCEPT !.kind = "raise", !.error = "ZeroDivisionError",
                               !.trace = SubSeq(evals, 1, stop)]
            ELSE IF Len(similarities) = 0
            THEN [NoRet EXCEPT !.kind = "raise", !.error = "IndexError"]
            ELSE [kind |-> "ResultScore", error |-> "none",
                  closest |-> similarities[1].text,
                  score |-> similarities[1].score,
                  similar |-> [k \in 1..Len(similar_rows) |-> similar_rows[k].text],
                  similar_rows |-> similar_rows,
                  similarities |-> similarities,
                  trace |-> evals]
    IN [ret |-> outcome,
        texts |-> IF stop <= Len(evals) THEN texts ELSE KeptTexts(similarities),
        vectorizer |-> vectorizer,
        embeddings |-> embeddings]

-----
(* Actions *)

Init ==
    /\ cosine_zero_norm \in {"nan", "clamped"}
    /\ pc = "new"
    /\ error = "none"
    /\ texts = << >>
    /\ vectorizer = [k \in 1..Len(Features) |-> 0]
    /\ embeddings = << >>
    /\ call = NoCall
    /\ ret = NoRet
    /\ saved = NoSaved

\* TextComparer(corpus), for a corpus of the set C
Construct(C) ==
    /\ pc = "new"
    /\ \E corpus \in C :
          LET fit == _calculate_embeddings(corpus)
          IN /\ texts' = corpus
             /\ vectorizer' = fit.vectorizer
             /\ embeddings' = fit.embeddings
             /\ pc' = IF fit.raised THEN "failed" ELSE "ready"
             /\ error' = IF fit.raised THEN "ValueError" ELSE "none"
    /\ UNCHANGED <<cosine_zero_norm, call, ret, saved>>

\* comparer.compare_texts(input_text, advanced)
Compare ==
    /\ pc = "ready"
    /\ \E input_text \in InputUniverse, advanced \in BOOLEAN :
          LET out == compare_texts(input_text, advanced)
          IN /\ ret' = out.ret
             /\ texts' = out.texts
             /\ vectorizer' = out.vectorizer
             /\ embeddings' = out.embeddings
             /\ call' = [input_text |-> input_text, advanced |-> advanced, made |-> TRUE]
             /\ saved' = IF /\ saved.call.made
                            /\ (saved.call.input_text # input_text
                                \/ saved.call.advanced # advanced)
                         THEN [saved EXCEPT !.interleaved = TRUE]
                         ELSE saved
    /\ UNCHANGED <<cosine_zero_norm, pc, error>>

\* The caller keeps the outcome of the last call to compare it with later ones.
Remember ==
    /\ call.made
    /\ saved' = [call |-> call, ret |-> ret, interleaved |-> FALSE]
    /\ UNCHANGED <<cosine_zero_norm, pc, error, texts, vectorizer, embeddings, call, ret>>

Next == Construct(Corpora) \/ Compare

NextRepeat == Construct(SmallCorpora) \/ Compare \/ Remember

NextWide == Construct(WideCorpora) \/ Compare

Spec == Init /\ [][Next]_vars

\* runs in which the caller compares the outcomes of repeated calls
SpecRepeat == Init /\ [][NextRepeat]_vars

\* runs over the longer corpora
SpecWide == Init /\ [][NextWide]_vars

----------------------------------------------------------------------------
(* Properties *)

Returned == ret.kind = "ResultScore"

Count == Len(texts)

\* the combined score of the candidate at a corpus position
ScoreAt(i) == ret.trace[i].combined_score

\* the corpus position compare_texts chose as closest
ClosestPos == ret.similarities[1].pos

ZeroNorm(v) == Dot(v, v) = 0

InputVector == Transform(vectorizer, call.input_text)

C2_SimilarSortedAndComplete ==
    Returned =>
        /\ \A k \in 1..(Len(ret.similar_rows) - 1) :
              FloatGe(ret.similar_rows[k].score, ret.similar_rows[k + 1].score)
        /\ \A k \in 1..Len(ret.similar_rows) :
              /\ FloatGe(ret.similar_rows[k].score, SIMILARITY_THRESHOLD)
              /\ \E r \in 2..Count : ret.similar_rows[k] = ret.similarities[r]
        /\ \A r \in 2..Count :
              FloatGe(ret.similarities[r].score, SIMILARITY_THRESHOLD)
              => \E k \in 1..Len(ret.similar_rows) :
                    ret.similar_rows[k].pos = ret.similarities[r].pos

\* C3: the ranking is by descending combined score, ties in corpus order:
\* closest is the first corpus position with the maximum score, score is that
\* maximum, and candidates of equal score keep their corpus order.  A
\* candidate whose score is NaN is left out of the comparison.
C3_RankedByScoreStable ==
    Returned =>
        /\ ret.score = ScoreAt(ClosestPos)
        /\ \A i \in 1..Count :
              ~IsNaN(ScoreAt(i)) =>
                 /\ FloatGe(ret.score, ScoreAt(i))
                 /\ ScoreAt(i) = ret.score => ClosestPos <= i
        /\ \A r \in 1..Count : \A q \in (r + 1)..Count :
              (~IsNaN(ret.similarities[r].score) /\ ~IsNaN(ret.similarities[q].score))
              => /\ ret.similarities[r].score >= ret.similarities[q].score
                 /\ ret.similarities[r].score = ret.similarities[q].score
                       => ret.similarities[r].pos < ret.similarities[q].pos

\* C4: the constructor fails on the empty corpus (the fit raises ValueError,
\* Python's invalid-input error): no comparer is produced, so compare_texts
\* never runs on an empty candidate list.
C4_EmptyCorpusFailsAtConstruction ==
    /\ (pc # "new" /\ Len(texts) = 0) => (pc = "failed" /\ error = "ValueError")
    /\ pc = "failed" => (~call.made /\ ret = NoRet)
    /\ call.made => (Len(texts) > 0 /\ ret.error # "IndexError")

C4_Witness == pc = "failed" /\ Len(texts) = 0 /\ error = "ValueError"

\* C5: for the empty input and an empty candidate the edit similarity is 1.0
\* and nothing is raised.
C5_EmptyPairEditSimilarityIsOne ==
    call.made =>
        \A i \in 1..Len(ret.trace) :
            (Len(call.input_text) = 0 /\ Len(texts[i]) = 0)
            => (~ret.trace[i].raised /\ ret.trace[i].lev_similarity = Unit)

\* C6: the lexical similarity is 0.0 whenever the input vector or the
\* candidate vector has zero norm, and the combined score in non-advanced
\* mode is then 0.3 * edit_similarity.
C6_ZeroNormLexicalIsZero ==
    call.made =>
        \A i \in 1..Len(ret.trace) :
            (ZeroNorm(InputVector) \/ ZeroNorm(embeddings[i]))
            => /\ ret.trace[i].tfidf_cosine_sim = 0
               /\ (~call.advanced /\ ~ret.trace[i].raised)
                     => ret.trace[i].combined_score = WeightLev * ret.trace[i].lev_similarity

\* C7: every call of compare_texts returns a result in which every candidate
\* has a defined score.
C7_CompareAlwaysReturnsDefinedScores ==
    call.made =>
        /\ Returned
        /\ Len(ret.trace) = Count
        /\ \A i \in 1..Count : ~IsNaN(ScoreAt(i))

\* the edit similarity of the specification: 1 - d / max(len), 1.0 for two
\* empty strings
EditSimilarity(s, t) ==
    IF Max2(Len(s), Len(t)) = 0 THEN Unit
    ELSE Unit - (levenshtein_distance(s, t) * Unit) \div Max2(Len(s), Len(t))

\* the lexical similarity of the specification: dot(a, b) / (|a| * |b|), 0.0
\* at a zero norm
LexicalSimilarity(a, b) ==
    IF ZeroNorm(a) \/ ZeroNorm(b) THEN 0
    ELSE (Dot(a, b) * Unit) \div SqrtOfProduct(Dot(a, a), Dot(b, b))

\* C8: every candidate gets 0.7 * component + 0.3 * edit_similarity, the
\* component being the semantic similarity in advanced mode and the lexical
\* similarity otherwise; a non-empty candidate identical to the input scores
\* 1.0 in non-advanced mode.
C8_CombinedScoreFormula ==
    call.made =>
        \A i \in 1..Count :
            /\ i <= Len(ret.trace)
            /\ ~ret.trace[i].raised
            /\ ret.trace[i].combined_score =
                  WeightEmbedding
                     * (IF call.advanced
                        THEN advanced_similarity(call.input_text, texts[i]).value
                        ELSE LexicalSimilarity(InputVector, embeddings[i]))
                  + WeightLev * EditSimilarity(call.input_text, texts[i])
            /\ (~call.advanced /\ texts[i] = call.input_text /\ Len(texts[i]) > 0)
                  => ret.trace[i].combined_score = One

\* C9: compare_texts leaves the corpus, the fitted vectorizer and the vectors
\* as they are, and a call with the arguments of an earlier call has the
\* outcome of that call, whatever was called in between.
C9_CompareIsStateless ==
    [][/\ pc = "ready" => (/\ texts' = texts
                           /\ vectorizer' = vectorizer
                           /\ embeddings' = embeddings)
       /\ (call.made /\ call' = call) => ret' = ret
       /\ (saved'.call.made /\ saved'.call = call') => saved'.ret = ret']_vars

\* a call repeated after its outcome was kept and other calls were made,
\* with a non-empty similar
C9_Witness ==
    /\ saved.interleaved
    /\ saved.call = call
    /\ Returned
    /\ Len(ret.similar) > 0

NoEmbedding(text) == Len(embed_text(text)) = 0

\* C10: the semantic similarity is exactly 0.0 when one of the two texts has
\* no embeddable token, and the decomposition is attempted only when both
\* have one.
C10_NoEmbeddingGivesZero ==
    (call.made /\ call.advanced) =>
        \A i \in 1..Len(ret.trace) :
            /\ (NoEmbedding(call.input_text) \/ NoEmbedding(texts[i]))
                  => (ret.trace[i].embedding_sim = 0 /\ ~ret.trace[i].svd)
            /\ ret.trace[i].svd
                  => (~NoEmbedding(call.input_text) /\ ~NoEmbedding(texts[i]))
            /\ ~IsNaN(ret.trace[i].embedding_sim)

\* an advanced call with an embeddable input that met a candidate without an
\* embeddable token and a candidate with one
C10_Witness ==
    /\ call.made
    /\ call.advanced
    /\ ~NoEmbedding(call.input_text)
    /\ \E i \in 1..Len(ret.trace) :
          NoEmbedding(texts[i]) /\ ret.trace[i].embedding_sim = 0
    /\ \E i \in 1..Len(ret.trace) : ret.trace[i].svd

====
